---- MODULE Spec2Model ----
(***************************************************************************)
(* shroom: a line-oriented command interpreter.                            *)
(*                                                                         *)
(* Two translation units are modelled:                                     *)
(*   impl = "parser"  src/src/parser.rs  (Lexer and Parser as a library)   *)
(*   impl = "main"    src/src/main.rs    (its own Lexer and Parser, the    *)
(*                                        builtins, execute and main)      *)
(* A source text is a sequence of one-character strings; every modelled    *)
(* character is ASCII, so len_utf8() is 1 and the cursor counts            *)
(* characters.                                                             *)
(***************************************************************************)
EXTENDS Integers, Sequences, FiniteSets, TLC

VARIABLES
    impl,         \* which translation unit runs
    pc,           \* control position of the running program
    source,       \* Lexer.source: the line being parsed
    position,     \* Lexer.position
    high,         \* the highest value Lexer.position has had for this source
    command,      \* parse_call's `command`
    args,         \* parse_call's `args`
    current_arg,  \* parse_call's `current_arg`
    result,       \* what parse() returned
    pulled,       \* the items the lexer has yielded to this parse(), in order
    cwd,          \* the process working directory
    exit_code,    \* main's `exit_code` for the line just executed
    handler,      \* the builtin handler execute invoked for this line
    spawned,      \* what Command::status() reported for this line, if called
    status        \* the process: running, exited with a code, or panicked

vars == <<impl, pc, source, position, high, command, args, current_arg,
          result, pulled, cwd, exit_code, handler, spawned, status>>

----------------------------------------------------------------------------
(* Bounds of the model *)

MaxRaw == 4     \* longest line drawn character by character
MaxWords == 3   \* most words in a line drawn word by word
MaxPad == 1     \* most blanks on either side of a padded word

----------------------------------------------------------------------------
(* Characters *)

None == "None"

Lower == {"a","b","c","d","e","f","g","h","i","j","k","l","m",
          "n","o","p","q","r","s","t","u","v","w","x","y","z"}
Upper == {"A","B","C","D","E","F","G","H","I","J","K","L","M",
          "N","O","P","Q","R","S","T","U","V","W","X","Y","Z"}
Digit == {"0","1","2","3","4","5","6","7","8","9"}

DQ == "\""
SQ == "'"
BS == "\\"
NL == "\n"
CR == "\r"
SP == " "
TAB == "\t"

Char == Lower \cup Upper \cup Digit \cup
        {"-", "+", "/", "_", ".", ",", "$", DQ, SQ, BS, NL, CR, SP, TAB}

----------------------------------------------------------------------------
(* Lexer *)

\* ParseError values; main.rs's variants carry the offending character.
UnclosedDelimiter == <<"UnclosedDelimiter">>
UnexpectedChar == <<"UnexpectedChar">>
UnexpectedEnd == <<"UnexpectedEnd">>
main_UnclosedDelimiter(c) == <<"UnclosedDelimiter", c>>
main_UnexpectedChar(c) == <<"UnexpectedChar", c>>

\* What one call of Lexer::next produces: the item and the lexer after it.
\* kind "None" is Option::None, "Err" is Some(Err(err)), "Panic" is a panic
\* raised inside the call; the others are Some(Ok(token)).
Item(k, t, e, lx) == [kind |-> k, text |-> t, err |-> e, lx |-> lx]

Ok_Newline_unconsumed(lx) ==
    Item("Newline", <<>>, <<>>, [lx EXCEPT !.position = @ - 1])

Ok_Newline_and_next(lx) ==
    Item("Newline", <<>>, <<>>, [lx EXCEPT !.position = @ + 1, !.high = @ + 1])

Ok_Newline(lx) == Item("Newline", <<>>, <<>>, lx)
Ok_Whitespace(lx) == Item("Whitespace", <<>>, <<>>, lx)
Ok_Text(t, lx) == Item("Text", t, <<>>, lx)

Err_unconsumed(e, lx) == Item("Err", <<>>, e, [lx EXCEPT !.position = @ - 1])

Err(e, lx) == Item("Err", <<>>, e, lx)
Panic(why, lx) == Item("Panic", <<>>, <<why>>, lx)

\* The Lexer struct (its source is passed alongside). Besides `position`
\* it carries a record of the cursor's movements: `high` is the highest
\* position reached, `fresh` holds when the last movement was a read_char
\* that returned a character, `orderly` holds while every unread_char so far
\* came right after such a read, and `asserted` holds once the assertion of
\* unread_char has failed.
Lexer(p, h) ==
    [position |-> p, high |-> h, fresh |-> FALSE, orderly |-> TRUE,
     asserted |-> FALSE]

read_char(src, lx) ==
    IF lx.position < Len(src)
    THEN [c |-> src[lx.position + 1],
          lx |-> [lx EXCEPT !.position = @ + 1,
                            !.high = IF lx.position + 1 > @
                                     THEN lx.position + 1 ELSE @,
                            !.fresh = TRUE]]
    ELSE [c |-> None, lx |-> [lx EXCEPT !.fresh = FALSE]]

\* assert!(self.position != 0), then one character back.
unread_char(src, lx) ==
    IF lx.position # 0
    THEN [lx EXCEPT !.position = @ - 1, !.fresh = FALSE,
                    !.orderly = @ /\ lx.fresh /\ lx.position = lx.high]
    ELSE [lx EXCEPT !.asserted = TRUE, !.orderly = FALSE]

is_whitespace_space_only(c) == c = SP

is_whitespace(c) == c = SP \/ c = TAB

is_unquoted_text(c) ==
    \/ c \in Lower \/ c \in Upper \/ c \in Digit
    \/ c = "-" \/ c = "+" \/ c = "/" \/ c = "_" \/ c = "."

main_is_unquoted_text(c) ==
    \/ c \in Lower \/ c \in Upper \/ c \in Digit
    \/ c = "-" \/ c = "+" \/ c = "/" \/ c = "_" \/ c = "." \/ c = ","

\* The characters each predicate handed to skip_while accepts.
Whitespaces == {c \in Char : is_whitespace(c)}
UnquotedTexts == {c \in Char : is_unquoted_text(c)}
main_UnquotedTexts == {c \in Char : main_is_unquoted_text(c)}

RECURSIVE skip_while_unread_at_end(_, _, _)
skip_while_unread_at_end(src, lx, predicate) ==
    LET r == read_char(src, lx) IN
    IF r.c = None \/ r.c \notin predicate THEN unread_char(src, r.lx)
    ELSE skip_while_unread_at_end(src, r.lx, predicate)

skip_while_once(src, lx, predicate) ==
    LET r == read_char(src, lx) IN
    IF r.c = None THEN r.lx
    ELSE IF r.c \notin predicate THEN unread_char(src, r.lx)
    ELSE r.lx

\* skip_while: the predicate is passed as the set of characters it accepts.
RECURSIVE skip_while(_, _, _)
skip_while(src, lx, predicate) ==
    LET r == read_char(src, lx) IN
    IF r.c = None THEN r.lx
    ELSE IF r.c \notin predicate THEN unread_char(src, r.lx)
    ELSE skip_while(src, r.lx, predicate)

lex_whitespace(src, lx) == Ok_Whitespace(skip_while(src, lx, Whitespaces))

lex_unquoted_text_less_first(src, lx, predicate) ==
    LET start == lx.position
        after == skip_while(src, lx, predicate)
        end == after.position
    IN Ok_Text(SubSeq(src, start + 2, end), after)

lex_unquoted_text(src, lx, predicate) ==
    LET start == lx.position
        after == skip_while(src, lx, predicate)
        end == after.position
    IN Ok_Text(SubSeq(src, start + 1, end), after)

\* parser.rs: Ok(text, lexer) or Err(UnexpectedEnd).
lex_double_quote_escape(src, lx, text) ==
    LET r == read_char(src, lx) IN
    IF r.c = None THEN [ok |-> FALSE, text |-> text, lx |-> r.lx]
    ELSE IF r.c = BS \/ r.c = DQ
         THEN [ok |-> TRUE, text |-> Append(text, r.c), lx |-> r.lx]
         ELSE [ok |-> TRUE, text |-> text \o <<BS, r.c>>, lx |-> r.lx]

RECURSIVE lex_double_quoted_text(_, _, _)
lex_double_quoted_text(src, lx, text) ==
    LET r == read_char(src, lx) IN
    IF r.c = None THEN Err(UnclosedDelimiter, r.lx)
    ELSE IF r.c = DQ THEN Ok_Text(text, r.lx)
    ELSE IF r.c = BS
         THEN LET e == lex_double_quote_escape(src, r.lx, text) IN
              IF e.ok THEN lex_double_quoted_text(src, e.lx, e.text)
              ELSE Err(UnexpectedEnd, e.lx)
    ELSE lex_double_quoted_text(src, r.lx, Append(text, r.c))

\* main.rs: a backslash inside quotes reaches unimplemented!().
RECURSIVE lex_quoted_text(_, _, _, _)
lex_quoted_text(src, lx, delimiter, text) ==
    LET r == read_char(src, lx) IN
    IF r.c = None THEN Err(main_UnclosedDelimiter(delimiter), r.lx)
    ELSE IF r.c = delimiter THEN Ok_Text(text, r.lx)
    ELSE IF r.c = BS THEN Panic("unimplemented", r.lx)
    ELSE lex_quoted_text(src, r.lx, delimiter, Append(text, r.c))

\* parser.rs, impl Iterator for Lexer
Lexer_next(src, lx) ==
    LET r == read_char(src, lx) IN
    IF r.c = None THEN Item("None", <<>>, <<>>, r.lx)
    ELSE IF is_whitespace(r.c) THEN lex_whitespace(src, r.lx)
    ELSE IF is_unquoted_text(r.c)
         THEN lex_unquoted_text(src, unread_char(src, r.lx), UnquotedTexts)
    ELSE IF r.c = CR \/ r.c = NL THEN Ok_Newline(r.lx)
    ELSE IF r.c = DQ THEN lex_double_quoted_text(src, r.lx, <<>>)
    ELSE Err(UnexpectedChar, r.lx)

\* main.rs, impl Iterator for Lexer
main_Lexer_next(src, lx) ==
    LET r == read_char(src, lx) IN
    IF r.c = None THEN Item("None", <<>>, <<>>, r.lx)
    ELSE IF is_whitespace(r.c) THEN lex_whitespace(src, r.lx)
    ELSE IF main_is_unquoted_text(r.c)
         THEN lex_unquoted_text(src, unread_char(src, r.lx), main_UnquotedTexts)
    ELSE IF r.c = CR \/ r.c = NL THEN Ok_Newline(r.lx)
    ELSE IF r.c = DQ \/ r.c = SQ THEN lex_quoted_text(src, r.lx, r.c, <<>>)
    ELSE Err(main_UnexpectedChar(r.c), r.lx)

\* self.lexer.next() of the translation unit that runs; a failed assertion
\* inside the call is a panic.
next(i, src, lx) ==
    LET t == IF i = "main" THEN main_Lexer_next(src, lx) ELSE Lexer_next(src, lx)
    IN IF t.lx.asserted THEN Panic("assert", t.lx) ELSE t

----------------------------------------------------------------------------
(* Parser *)

Expr_Text(t) == [Text |-> t]

NoResult == [kind |-> "none", command |-> <<>>, args |-> <<>>, err |-> <<>>]
Ast_Empty == [kind |-> "Empty", command |-> <<>>, args |-> <<>>, err |-> <<>>]
Ast_Call(c, a) == [kind |-> "Call", command |-> c, args |-> a, err |-> <<>>]
Result_Err(e) == [kind |-> "Err", command |-> <<>>, args |-> <<>>, err |-> e]

\* Parser::new(input): the parser's registers before the first token.
Parser_new ==
    [pc |-> "parse", position |-> 0, high |-> 0, command |-> <<>>,
     args |-> <<>>, current_arg |-> <<>>, result |-> NoResult, pulled |-> <<>>]

\* The item as `pulled` records it: with the cursor where the call began
\* and whether every unread_char of the call came right after a read.
Seen(p, t) ==
    [kind |-> t.kind, text |-> t.text, err |-> t.err,
     start |-> p.position, orderly |-> t.lx.orderly]

\* The parser's registers once the lexer has delivered `t`.
Pulled(p, t) ==
    [p EXCEPT !.position = t.lx.position, !.high = t.lx.high,
              !.pulled = Append(@, Seen(p, t))]

\* A variant of try! that drops the error and goes on to the next token.
try_token_result_skip(q, t) == q

\* let token = try!(token_result) for an Err: the function returns that Err.
try_token_result(q, t) == [q EXCEPT !.pc = "parsed", !.result = Result_Err(t.err)]

\* One pull of parse(): the body of parse for the token `t` just read.
parse(p, t) ==
    LET q == Pulled(p, t) IN
    IF t.kind = "None" THEN [q EXCEPT !.pc = "parsed", !.result = Ast_Empty]
    ELSE IF t.kind = "Panic" THEN [q EXCEPT !.pc = "panicked"]
    ELSE IF t.kind = "Err" THEN try_token_result(q, t)
    ELSE IF t.kind = "Whitespace" \/ t.kind = "Newline" THEN q
    ELSE [q EXCEPT !.pc = "call", !.command = t.text,
                   !.args = <<>>, !.current_arg = <<>>]

push_current_arg_always(a, current) == Append(a, current)

\* if !current_arg.is_empty() { args.push(current_arg) }
push_current_arg(a, current) ==
    IF current # <<>> THEN Append(a, current) ELSE a

\* One iteration of parse_call's loop (or its exit) for the token `t`.
parse_call(p, t) ==
    LET q == Pulled(p, t) IN
    IF t.kind = "None"
    THEN [q EXCEPT !.pc = "parsed", !.result = Ast_Call(p.command, p.args)]
    ELSE IF t.kind = "Panic" THEN [q EXCEPT !.pc = "panicked"]
    ELSE IF t.kind = "Err" THEN try_token_result(q, t)
    ELSE IF t.kind = "Newline"
         THEN LET a == push_current_arg(p.args, p.current_arg)
              IN [q EXCEPT !.pc = "parsed", !.args = a,
                           !.result = Ast_Call(p.command, a)]
    ELSE IF t.kind = "Whitespace"
         THEN [q EXCEPT !.args = push_current_arg(p.args, p.current_arg),
                        !.current_arg = <<>>]
    ELSE [q EXCEPT !.current_arg = Append(p.current_arg, Expr_Text(t.text))]

\* The parser after its next pull from the lexer.
Parser_step(i, src, p) ==
    LET t == next(i, src, Lexer(p.position, p.high)) IN
    IF p.pc = "parse" THEN parse(p, t) ELSE parse_call(p, t)

\* Parser::new(src).parse() run to its return (or panic).
RECURSIVE Parser_run(_, _, _)
Parser_run(i, src, p) ==
    IF p.pc \in {"parse", "call"} THEN Parser_run(i, src, Parser_step(i, src, p))
    ELSE p

Parse(i, src) == Parser_run(i, src, Parser_new)

----------------------------------------------------------------------------
(* The operating system as execute sees it *)

StartDir == <<"s">>                 \* the directory the interpreter starts in
HomeDir == <<"h">>                  \* what home_dir() returns when it can
ExistingDirs == {<<"a">>, HomeDir}  \* the paths set_current_dir can enter

\* What Command::status() can report for an external command.
SpawnOutcomes ==
    {[kind |-> "SpawnErr", n |-> 0]} \cup
    {[kind |-> "Code", n |-> c] : c \in {0, 3}} \cup
    {[kind |-> "Signal", n |-> 9], [kind |-> "Neither", n |-> 0]}

\* One answer of the operating system to the calls of one execute().
Os == [home : {None, "Some"}, chdir_ok : BOOLEAN, spawn : SpawnOutcomes]

----------------------------------------------------------------------------
(* Builtins and execute *)

RECURSIVE Concat(_)
Concat(ss) == IF ss = <<>> THEN <<>> ELSE Head(ss) \o Concat(Tail(ss))

\* A variant of evaluate that joins the fragments with a space.
evaluate_join_space(arg) ==
    IF arg = <<>> THEN <<>>
    ELSE arg[1].Text \o Concat([k \in 1..(Len(arg) - 1) |-> <<SP>> \o arg[k + 1].Text])

\* arg.iter().map(|Expr::Text(text)| text).join("")
evaluate(arg) == Concat([k \in 1..Len(arg) |-> arg[k].Text])

evaluated_args(a) == [k \in 1..Len(a) |-> evaluate(a[k])]

DigitValue(c) == CHOOSE n \in 0..9 : <<"0","1","2","3","4","5","6","7","8","9">>[n + 1] = c

I32Max == 2147483647
I32Min == -I32Max - 1

\* <i32 as FromStr>: the digits are accumulated with checked arithmetic,
\* upwards after '+' or no sign, downwards after '-'.
RECURSIVE parse_digits(_, _, _)
parse_digits(s, acc, positive) ==
    IF s = <<>> THEN [ok |-> TRUE, value |-> acc]
    ELSE IF Head(s) \notin Digit THEN [ok |-> FALSE, value |-> 0]
    ELSE LET d == DigitValue(Head(s)) IN
         IF positive
         THEN IF acc > (I32Max - d) \div 10 THEN [ok |-> FALSE, value |-> 0]
              ELSE parse_digits(Tail(s), acc * 10 + d, positive)
         ELSE IF acc < (I32Min + d + 9) \div 10
              THEN [ok |-> FALSE, value |-> 0]
              ELSE parse_digits(Tail(s), acc * 10 - d, positive)

\* exit_code_str.parse()
parse_i32(s) ==
    IF s = <<>> THEN [ok |-> FALSE, value |-> 0]
    ELSE IF Head(s) \in {"+", "-"}
         THEN IF Len(s) = 1 THEN [ok |-> FALSE, value |-> 0]
              ELSE parse_digits(Tail(s), 0, Head(s) = "+")
    ELSE parse_digits(s, 0, TRUE)

\* What a builtin or execute yields: the exit code it returns, the working
\* directory afterwards, the code of std::process::exit if it was called
\* (then nothing is returned), and the handler that was invoked.
\* What execute leaves behind. `spawned` is the child's ExitStatus, or the
\* spawn error, when Command::status() was called.
NotSpawned == [kind |-> "NotSpawned", n |-> 0]
Outcome(code, dir, ex, h) ==
    [exit_code |-> code, cwd |-> dir, exit |-> ex, handler |-> h,
     spawned |-> NotSpawned]
NoExit == <<>>

\* std::env::set_current_dir
set_current_dir(path, dir, os) ==
    IF os.chdir_ok /\ path \in ExistingDirs
    THEN [ok |-> TRUE, cwd |-> path]
    ELSE [ok |-> FALSE, cwd |-> dir]

result_to_exit_code(r) == IF r.ok THEN 0 ELSE 1

builtin_cd_always_home(a, dir, os) ==
    IF os.home # None
    THEN LET r == set_current_dir(HomeDir, dir, os)
         IN Outcome(result_to_exit_code(r), r.cwd, NoExit, "cd")
    ELSE Outcome(1, dir, NoExit, "cd")

builtin_cd(a, dir, os) ==
    IF Len(a) >= 1
    THEN LET r == set_current_dir(a[1], dir, os)
         IN Outcome(result_to_exit_code(r), r.cwd, NoExit, "cd")
    ELSE IF os.home # None
         THEN LET r == set_current_dir(HomeDir, dir, os)
              IN Outcome(result_to_exit_code(r), r.cwd, NoExit, "cd")
    ELSE Outcome(1, dir, NoExit, "cd")

builtin_exit(a, dir, os) ==
    IF Len(a) >= 1
    THEN LET n == parse_i32(a[1]) IN
         IF n.ok THEN Outcome(0, dir, <<n.value>>, "exit")
         ELSE Outcome(1, dir, NoExit, "exit")
    ELSE Outcome(0, dir, <<0>>, "exit")

cd == <<"c", "d">>
exit == <<"e", "x", "i", "t">>

\* The registry execute builds: name |-> [min_args, max_args].
builtins == {[name |-> cd, min_args |-> 0, max_args |-> 1],
             [name |-> exit, min_args |-> 0, max_args |-> 1]}

builtin_func(name, a, dir, os) ==
    IF name = cd THEN builtin_cd(a, dir, os) ELSE builtin_exit(a, dir, os)

\* A variant of the arity check without its upper limit.
arity_no_max(n, builtin) ==
    IF n < builtin.min_args THEN "not enough arguments" ELSE "ok"

\* execute's check of args.len() against the builtin's range.
arity(n, builtin) ==
    IF n < builtin.min_args THEN "not enough arguments"
    ELSE IF n > builtin.max_args THEN "too many arguments"
    ELSE "ok"

spawn_signal_unshifted(dir, os) ==
    [(IF os.spawn.kind = "SpawnErr" THEN Outcome(127, dir, NoExit, "none")
      ELSE IF os.spawn.kind = "Code"
           THEN Outcome(os.spawn.n, dir, NoExit, "none")
      ELSE IF os.spawn.kind = "Signal"
           THEN Outcome(os.spawn.n, dir, NoExit, "none")
      ELSE Outcome(127, dir, NoExit, "none"))
     EXCEPT !.spawned = os.spawn]

\* The external command branch of execute.
spawn(dir, os) ==
    [(IF os.spawn.kind = "SpawnErr" THEN Outcome(127, dir, NoExit, "none")
      ELSE IF os.spawn.kind = "Code"
           THEN Outcome(os.spawn.n, dir, NoExit, "none")
      ELSE IF os.spawn.kind = "Signal"
           THEN Outcome(128 + os.spawn.n, dir, NoExit, "none")
      ELSE Outcome(127, dir, NoExit, "none"))
     EXCEPT !.spawned = os.spawn]

execute(ast, dir, os) ==
    IF ast.kind = "Empty" THEN Outcome(0, dir, NoExit, "none")
    ELSE LET ev == evaluated_args(ast.args)
             found == {b \in builtins : b.name = ast.command}
         IN IF found # {}
            THEN LET builtin == CHOOSE b \in found : TRUE IN
                 IF arity(Len(ast.args), builtin) # "ok"
                 THEN Outcome(1, dir, NoExit, "none")
                 ELSE builtin_func(builtin.name, ev, dir, os)
            ELSE spawn(dir, os)

----------------------------------------------------------------------------
(* The lines the interpreter is given *)

SeqsUpTo(S, n) == UNION {[1..k -> S] : k \in 0..n}

\* Lines drawn character by character, with and without the line feed.
RawChars == {"a", SP, CR, DQ, BS, SQ, "$"}
RawLines == {l \o t : l \in SeqsUpTo(RawChars, MaxRaw), t \in {<<>>, <<NL>>}}

\* Lines drawn word by word: words separated by one space.
ls == <<"l", "s">>
Words == {cd, exit, ls, <<"a">>, <<"-", "7">>,
          <<"a", DQ, "b", SP, "c", DQ, "d">>, <<"$">>}

RECURSIVE Join(_)
Join(ws) ==
    IF ws = <<>> THEN <<>>
    ELSE IF Len(ws) = 1 THEN Head(ws)
    ELSE Head(ws) \o <<SP>> \o Join(Tail(ws))

WordLines ==
    {Join(ws) \o t : ws \in SeqsUpTo(Words, MaxWords) \ {<<>>}, t \in {<<>>, <<NL>>}}

\* Lines of blank characters only; the line feed may stand anywhere.
BlankLines == SeqsUpTo({SP, TAB, CR, NL}, MaxRaw)

\* One word of unquoted-text characters, padded with blanks on either side.
PlainWords == {<<"a">>, cd, <<"-", "7">>, <<"a", ",">>,
               <<"A", "_", ".", "/", "+", "0">>}
PaddedLines ==
    {lead \o w \o trail \o t :
        lead \in SeqsUpTo({SP, TAB}, MaxPad), w \in PlainWords,
        trail \in SeqsUpTo({SP, TAB}, MaxPad), t \in {<<>>, <<NL>>}}

Lines == RawLines \cup WordLines \cup BlankLines \cup PaddedLines

\* What read_line can deliver: a line feed only ends a line.
ReadLines == {l \in Lines : \A j \in 1..(Len(l) - 1) : l[j] # NL}

----------------------------------------------------------------------------
(* The programs *)

Running == <<"running">>
Exited(n) == <<"exited", n>>
Panicked(why) == <<"panicked", why>>

NoCode == <<>>

Parser_regs ==
    [pc |-> pc, position |-> position, high |-> high, command |-> command,
     args |-> args, current_arg |-> current_arg, result |-> result,
     pulled |-> pulled]

Init ==
    /\ impl \in {"parser", "main"}
    /\ IF impl = "main"
       THEN pc = "prompt" /\ source = <<>>
       ELSE pc = "parse" /\ source \in Lines
    /\ position = 0
    /\ high = 0
    /\ command = <<>>
    /\ args = <<>>
    /\ current_arg = <<>>
    /\ result = NoResult
    /\ pulled = <<>>
    /\ cwd = StartDir
    /\ exit_code = NoCode
    /\ handler = "none"
    /\ spawned = NotSpawned
    /\ status = Running

\* main: prompt(&mut line).unwrap() read a line; Parser::new(&line).
ReadLine ==
    /\ impl = "main" /\ pc = "prompt" /\ status = Running
    /\ \E l \in ReadLines :
        /\ source' = l
        /\ pc' = Parser_new.pc
        /\ position' = Parser_new.position
        /\ high' = Parser_new.high
        /\ command' = Parser_new.command
        /\ args' = Parser_new.args
        /\ current_arg' = Parser_new.current_arg
        /\ result' = Parser_new.result
        /\ pulled' = Parser_new.pulled
    /\ exit_code' = NoCode
    /\ handler' = "none"
    /\ spawned' = NotSpawned
    /\ UNCHANGED <<impl, cwd, status>>

\* main: prompt(&mut line).unwrap() panics when the directory cannot be
\* queried or the read fails.
PromptFails ==
    /\ impl = "main" /\ pc = "prompt" /\ status = Running
    /\ pc' = "panicked"
    /\ status' = Panicked("prompt")
    /\ UNCHANGED <<impl, source, position, high, command, args, current_arg,
                   result, pulled, cwd, exit_code, handler, spawned>>

\* parse() or parse_call() pulls the next token and acts on it.
ParseStep ==
    /\ pc \in {"parse", "call"} /\ status = Running
    /\ \E q \in {Parser_step(impl, source, Parser_regs)} :
        /\ pc' = q.pc
        /\ position' = q.position
        /\ high' = q.high
        /\ command' = q.command
        /\ args' = q.args
        /\ current_arg' = q.current_arg
        /\ result' = q.result
        /\ pulled' = q.pulled
        /\ status' = IF q.pc = "panicked"
                     THEN Panicked(q.pulled[Len(q.pulled)].err[1])
                     ELSE status
    /\ UNCHANGED <<impl, source, cwd, exit_code, handler, spawned>>

\* main: the match on parse()'s result: execute the Ast, or report the error.
Execute ==
    /\ impl = "main" /\ pc = "parsed" /\ status = Running
    /\ IF result.kind = "Err"
       THEN /\ pc' = "executed"
            /\ UNCHANGED <<cwd, exit_code, handler, spawned, status>>
       ELSE \E os \in Os : \E o \in {execute(result, cwd, os)} :
            /\ cwd' = o.cwd
            /\ handler' = o.handler
            /\ spawned' = o.spawned
            /\ IF o.exit # NoExit
               THEN /\ status' = Exited(o.exit[1])
                    /\ pc' = "exited"
                    /\ exit_code' = NoCode
               ELSE /\ status' = status
                    /\ pc' = "executed"
                    /\ exit_code' = <<o.exit_code>>
    /\ UNCHANGED <<impl, source, position, high, command, args, current_arg,
                   result, pulled>>

\* main: line.clear() and the next iteration of the loop.
LineClear ==
    /\ impl = "main" /\ pc = "executed" /\ status = Running
    /\ pc' = "prompt"
    /\ source' = <<>>
    /\ position' = 0
    /\ high' = 0
    /\ command' = <<>>
    /\ args' = <<>>
    /\ current_arg' = <<>>
    /\ result' = NoResult
    /\ pulled' = <<>>
    /\ exit_code' = NoCode
    /\ handler' = "none"
    /\ spawned' = NotSpawned
    /\ UNCHANGED <<impl, cwd, status>>

Next == ReadLine \/ PromptFails \/ ParseStep \/ Execute \/ LineClear

Spec == Init /\ [][Next]_vars

----------------------------------------------------------------------------
(* Vocabulary of the properties *)

Last(q) == q[Len(q)]

\* The words of the line as the lexer delivered them: each maximal run of
\* adjacent Text items, concatenated.
RECURSIVE WordsOf(_, _, _)
WordsOf(items, word, inWord) ==
    IF items = <<>> THEN (IF inWord THEN <<word>> ELSE <<>>)
    ELSE IF Head(items).kind = "Text"
         THEN WordsOf(Tail(items), word \o Head(items).text, TRUE)
    ELSE IF Head(items).kind = "Newline" /\ inWord THEN <<word>>
    ELSE (IF inWord THEN <<word>> ELSE <<>>) \o WordsOf(Tail(items), <<>>, FALSE)

LineWords == WordsOf(pulled, <<>>, FALSE)

IsPrefix(a, b) == Len(a) <= Len(b) /\ a = SubSeq(b, 1, Len(a))

----------------------------------------------------------------------------
(* C1 *)

\* C1: when the token stream ends without a Newline, the call is finalized
\* as a Newline would finalize it: parse(s) returns the Ast that
\* parse(s followed by a line feed) returns.
C1_EndOfInputFinalizes ==
    (pc = "parsed" /\ result.kind = "Call" /\ Last(pulled).kind = "None")
        => result = Parse(impl, source \o <<NL>>).result

----------------------------------------------------------------------------
(* C2 *)

\* C2: whenever parse returns a Call, its command is non-empty.
C2_CommandNonEmpty == result.kind = "Call" => result.command # <<>>

----------------------------------------------------------------------------
(* C3 *)

\* C3: the command is the whole first word of the line (all of its adjacent
\* unquoted and quoted runs, concatenated), and args holds only words after
\* the first.
C3_CommandIsFirstWord ==
    (pc = "parsed" /\ result.kind = "Call") =>
        /\ result.command = LineWords[1]
        /\ IsPrefix(evaluated_args(result.args), Tail(LineWords))

----------------------------------------------------------------------------
(* C4 *)

QuotedWord == <<"a", DQ, "b", SP, "c", DQ, "d">>

\* The line is an unquoted command word of k characters, one space, and the
\* argument a"b c"d, which ends the line or is followed by a separator.
WrittenAfter(k) ==
    /\ k >= 1 /\ Len(source) >= k + 8
    /\ \A j \in 1..k : is_unquoted_text(source[j])
    /\ SubSeq(source, k + 1, k + 8) = <<SP>> \o QuotedWord
    /\ (Len(source) > k + 8 => source[k + 9] \in {SP, TAB, CR, NL})

\* The fragment sequence the argument has become once the lexer is past it.
FirstArgument == IF args # <<>> THEN args[1] ELSE current_arg

----------------------------------------------------------------------------
(* C5, C6 *)

\* The body of a double-quoted segment read from the k-th character of src
\* on, by the stated rule: \" gives ", \\ gives \, \c gives \c, an
\* unescaped " closes. `end` tells how the reading ended.
RECURSIVE Quoted(_, _, _)
Quoted(src, k, text) ==
    IF k > Len(src) THEN [end |-> "unclosed", text |-> text]
    ELSE IF src[k] = DQ THEN [end |-> "closed", text |-> text]
    ELSE IF src[k] = BS
         THEN IF k = Len(src) THEN [end |-> "backslash", text |-> text]
              ELSE IF src[k + 1] \in {DQ, BS}
                   THEN Quoted(src, k + 2, Append(text, src[k + 1]))
              ELSE Quoted(src, k + 2, text \o <<BS, src[k + 1]>>)
    ELSE Quoted(src, k + 1, Append(text, src[k]))

\* The parser is about to pull a token that starts with a double quote.
AtDoubleQuote ==
    /\ pc \in {"parse", "call"} /\ status = Running
    /\ position < Len(source) /\ source[position + 1] = DQ

\* C5: a double-quoted segment with its closing quote is lexed, without
\* aborting, into one Text token whose content is the body with \" and \\
\* unescaped and every other \c kept as the two characters.
C5_EscapeFidelity ==
    [][(AtDoubleQuote /\ Quoted(source, position + 2, <<>>).end = "closed")
        => /\ pc' \in {"parse", "call"}
           /\ Last(pulled').kind = "Text"
           /\ Last(pulled').text = Quoted(source, position + 2, <<>>).text]_vars

\* C6: a double quote opened among the tokens of the line and not closed
\* before the end of the input makes parse fail with UnclosedDelimiter, or
\* with UnexpectedEnd when the input ends right after a backslash inside the
\* quote; no Call is returned.
C6_UnclosedQuoteFails ==
    [][(AtDoubleQuote /\ Quoted(source, position + 2, <<>>).end # "closed")
        => /\ pc' = "parsed"
           /\ result'.kind = "Err"
           /\ result'.err[1] =
                (IF Quoted(source, position + 2, <<>>).end = "backslash"
                 THEN "UnexpectedEnd" ELSE "UnclosedDelimiter")]_vars

----------------------------------------------------------------------------
(* C7 *)

\* C7: a command line is all-or-nothing: an error yielded by the lexer for
\* any token pulled by parse or parse_call ends the parse at once, and parse
\* returns exactly that error, whatever arguments were accumulated.
C7_AllOrNothing ==
    \A k \in 1..Len(pulled) :
        pulled[k].kind = "Err"
        => /\ k = Len(pulled)
           /\ pc \in {"parsed", "executed"}
           /\ result = Result_Err(pulled[k].err)

\* The lexer failed at a later argument, after an argument was accumulated.
C7_Witness ==
    /\ pc = "parsed" /\ Last(pulled).kind = "Err"
    /\ result.kind = "Err" /\ Len(args) >= 1

----------------------------------------------------------------------------
(* C8 *)

\* C8: the interpreter process ends only on a line that dispatches exit
\* with at most one argument and an absent or parseable code; every other
\* line, a lexical error included, returns control to the read loop.
C8_OnlyExitTerminates ==
    (status # Running /\ status # Panicked("prompt"))
    => /\ status[1] = "exited"
       /\ result.kind = "Call" /\ result.command = exit
       /\ Len(result.args) <= 1
       /\ (result.args # <<>> => parse_i32(evaluate(result.args[1])).ok)

----------------------------------------------------------------------------
(* C9 *)

\* main executes the Call it parsed, and the Call names a builtin.
ExecutesBuiltin ==
    /\ impl = "main" /\ pc = "parsed" /\ pc' # "parsed"
    /\ result.kind = "Call"
    /\ \E b \in builtins : b.name = result.command

\* C9: a builtin called with a number of arguments outside
\* [min_args, max_args] returns exit code 1 and its handler is not invoked
\* (the working directory stays, the interpreter keeps running); within the
\* range the handler is invoked and its result is the exit code.
C9_ArityGuardsHandler ==
    [][ExecutesBuiltin =>
        LET b == CHOOSE x \in builtins : x.name = result.command
            n == Len(result.args)
        IN IF n < b.min_args \/ n > b.max_args
           THEN /\ exit_code' = <<1>>
                /\ handler' = "none"
                /\ cwd' = cwd
                /\ status' = Running /\ pc' = "executed"
           ELSE /\ handler' = (IF b.name = cd THEN "cd" ELSE "exit")
                /\ \E os \in Os :
                     LET o == builtin_func(b.name, evaluated_args(result.args),
                                           cwd, os)
                     IN IF o.exit = NoExit
                        THEN /\ exit_code' = <<o.exit_code>> /\ cwd' = o.cwd
                             /\ status' = Running
                        ELSE status' = Exited(o.exit[1])]_vars

\* cd was given two arguments and the line ended with exit code 1, no
\* handler invoked.
C9_Witness ==
    /\ pc = "executed" /\ result.kind = "Call" /\ result.command = cd
    /\ Len(result.args) = 2 /\ exit_code = <<1>> /\ handler = "none"
    /\ cwd = <<"a">>

----------------------------------------------------------------------------
(* C10 *)

\* How the line is written: `exit` alone, `exit` and one unquoted word, or
\* anything else; with or without the line feed.
ExitLine ==
    LET body == IF source # <<>> /\ Last(source) = NL
                THEN SubSeq(source, 1, Len(source) - 1) ELSE source
    IN IF body = exit THEN [shape |-> "bare", word |-> <<>>]
       ELSE IF /\ Len(body) > 5
               /\ SubSeq(body, 1, 5) = exit \o <<SP>>
               /\ \A j \in 6..Len(body) : main_is_unquoted_text(body[j])
            THEN [shape |-> "code", word |-> SubSeq(body, 6, Len(body))]
       ELSE [shape |-> "other", word |-> <<>>]

\* C10: `exit n` with n a signed integer ends the interpreter with code n
\* and `exit` alone ends it with code 0, whether the line ends with a line
\* feed or with the end of the input; `exit w` with w not an integer
\* returns exit code 1 and the interpreter goes on to the next line.
C10_ExitCodes ==
    (impl = "main" /\ pc \in {"executed", "exited"}) =>
        /\ ExitLine.shape = "bare" => status = Exited(0)
        /\ (ExitLine.shape = "code" /\ parse_i32(ExitLine.word).ok)
              => status = Exited(parse_i32(ExitLine.word).value)
        /\ (ExitLine.shape = "code" /\ ~parse_i32(ExitLine.word).ok)
              => (status = Running /\ pc = "executed" /\ exit_code = <<1>>)

----------------------------------------------------------------------------
(* C11 *)

\* The step is main's execute of a parsed line that dispatches `cd`.
DispatchesCd ==
    /\ impl = "main" /\ pc = "parsed" /\ pc' = "executed"
    /\ result.kind = "Call" /\ result.command = cd

\* C11: the working directory changes only on a line that dispatches cd
\* with 0 or 1 arguments and whose change of directory succeeds: with one
\* argument it becomes that path, with none it becomes the home directory,
\* and the exit code is 0; a cd that returns a non-zero exit code (too many
\* arguments, no home directory, a failed change) and every other step
\* leave it as it was.
C11_CdFrame ==
    [][/\ cwd' # cwd =>
            /\ DispatchesCd
            /\ Len(result.args) <= 1
            /\ exit_code' = <<0>>
       /\ (DispatchesCd /\ exit_code' = <<0>>) =>
            /\ Len(result.args) = 1 => cwd' = evaluate(result.args[1])
            /\ Len(result.args) = 0 => cwd' = HomeDir
       /\ (DispatchesCd /\ exit_code' # <<0>>) => cwd' = cwd]_vars

\* A `cd a` line has been executed from another directory: the working
\* directory is now `a` and the exit code 0.
C11_Witness ==
    /\ pc = "executed" /\ result.kind = "Call" /\ result.command = cd
    /\ Len(result.args) = 1 /\ evaluate(result.args[1]) = <<"a">>
    /\ cwd = <<"a">> /\ exit_code = <<0>>

----------------------------------------------------------------------------
(* C12 *)

\* main has executed a line whose command is not a builtin.
ExternalRan ==
    /\ impl = "main" /\ pc = "executed" /\ result.kind = "Call"
    /\ \A b \in builtins : b.name # result.command

\* C12 (as stated): for a command that is not a builtin the exit code is
\* the child's explicit code, else 128 + N for a terminating signal N, else
\* 127, and 127 when the spawn fails; the spawn failure is the only outcome
\* without an explicit code or signal that yields 127, and 0 is returned
\* only when the child exited with code 0.
C12_Original ==
    ExternalRan =>
        /\ spawned.kind = "Code" => exit_code = <<spawned.n>>
        /\ spawned.kind = "Signal" => exit_code = <<128 + spawned.n>>
        /\ spawned.kind = "SpawnErr" => exit_code = <<127>>
        /\ (exit_code = <<127>> /\ spawned.kind \notin {"Code", "Signal"})
              => spawned.kind = "SpawnErr"
        /\ exit_code = <<0>> => spawned = [kind |-> "Code", n |-> 0]

\* C12 (as amended): for a command that is not a builtin Command::status()
\* is called and the exit code is the child's explicit code, else 128 + N
\* for a terminating signal N, else 127, and 127 when the spawn fails: both
\* the spawn failure and an exit status with neither code nor signal yield
\* 127; 0 is returned only when the child exited with code 0.
C12_ExternalExitCode ==
    ExternalRan =>
        /\ spawned.kind \in {"Code", "Signal", "Neither", "SpawnErr"}
        /\ spawned.kind = "Code" => exit_code = <<spawned.n>>
        /\ spawned.kind = "Signal" => exit_code = <<128 + spawned.n>>
        /\ spawned.kind = "Neither" => exit_code = <<127>>
        /\ spawned.kind = "SpawnErr" => exit_code = <<127>>
        /\ exit_code = <<0>> => spawned = [kind |-> "Code", n |-> 0]

\* An external command was ended by signal 9: the exit code is 137.
C12_Witness ==
    ExternalRan /\ spawned = [kind |-> "Signal", n |-> 9] /\ exit_code = <<137>>

----------------------------------------------------------------------------
(* C13 *)

\* The line consists solely of spaces, tabs, carriage returns and line
\* feeds; the empty line is one of them.
Blank(src) == \A j \in 1..Len(src) : src[j] \in {SP, TAB, CR, NL}

\* C13: on a line of blanks only, parse returns Ast::Empty, and execute
\* then returns exit code 0 with no side effect: no handler is invoked, no
\* process is spawned, and the working directory and the interpreter's
\* status stay as they were.
C13_BlankIsEmpty ==
    [][/\ (Blank(source) /\ pc = "parse" /\ pc' # "parse")
            => (pc' = "parsed" /\ result' = Ast_Empty)
       /\ (Blank(source) /\ pc = "parsed" /\ pc' # "parsed")
            => /\ pc' = "executed" /\ exit_code' = <<0>>
               /\ handler' = "none" /\ spawned' = NotSpawned
               /\ cwd' = cwd /\ status' = status]_vars

\* main has executed a line of a space, a tab and a carriage return.
C13_Witness ==
    /\ pc = "executed" /\ Blank(source) /\ Len(source) >= 3
    /\ \E j \in 1..Len(source) : source[j] = TAB
    /\ \E j \in 1..Len(source) : source[j] = CR
    /\ result = Ast_Empty /\ exit_code = <<0>>

----------------------------------------------------------------------------
(* C14 *)

\* The unquoted-text characters of the lexer that runs.
Unquoted(i, c) ==
    IF i = "main" THEN main_is_unquoted_text(c) ELSE is_unquoted_text(c)

\* The line is the word source[i..j] of unquoted-text characters, with
\* only spaces and tabs before and after it and at most a line feed at the
\* very end.
PaddedWord(i, j) ==
    /\ i <= j
    /\ \A k \in i..j : Unquoted(impl, source[k])
    /\ \A k \in 1..(i - 1) : source[k] \in {SP, TAB}
    /\ \A k \in (j + 1)..Len(source) :
          source[k] \in {SP, TAB} \/ (k = Len(source) /\ source[k] = NL)

\* C14: a line that is one non-empty word w of unquoted-text characters,
\* with or without the terminating line feed and with any spaces or tabs
\* around it, parses to Call { command: w, args: [] }.
C14_PlainWord ==
    pc \in {"parsed", "executed", "exited"} =>
        \A i, j \in 1..Len(source) :
            PaddedWord(i, j) => result = Ast_Call(SubSeq(source, i, j), <<>>)

\* A word of several characters with a blank before it, a blank after it
\* and the line feed has been parsed.
C14_Witness ==
    /\ pc = "parsed" /\ result.kind = "Call" /\ Len(result.command) >= 2
    /\ Len(source) = Len(result.command) + 3
    /\ PaddedWord(2, Len(source) - 2)
    /\ Last(source) = NL

----------------------------------------------------------------------------
(* C15 *)

\* C15: at every step of parse_call and in every Call it returns, each
\* element of args is a non-empty sequence of fragments: no run of
\* whitespace, leading, trailing or repeated, has made an argument.
C15_ArgsNonEmpty ==
    /\ \A k \in 1..Len(args) : args[k] # <<>>
    /\ result.kind = "Call" => \A k \in 1..Len(result.args) : result.args[k] # <<>>

\* A call with one argument was returned for a line with whitespace both
\* before and after the argument.
C15_Witness ==
    /\ pc = "parsed" /\ result.kind = "Call" /\ Len(result.args) = 1
    /\ \E j, k \in 1..Len(pulled) :
          j < k /\ pulled[j].kind = "Whitespace" /\ pulled[k].kind = "Whitespace"

----------------------------------------------------------------------------
(* C16 *)

\* parse_call has returned a Call at a Newline token.
StoppedAtNewline ==
    /\ pc \in {"parsed", "executed", "exited"}
    /\ result.kind = "Call" /\ Last(pulled).kind = "Newline"

\* C16: parse_call stops consuming at the first Newline token after the
\* command word: no token is pulled after it, the cursor is left right
\* after the newline character and nothing beyond it has been read, and
\* the Call returned is the one parse returns for the input cut off after
\* that newline.
C16_StopsAtNewline ==
    /\ \A j, k \in 1..Len(pulled) :
          (j < k /\ pulled[j].kind = "Text" /\ pulled[k].kind = "Newline")
             => (k = Len(pulled) /\ pc \notin {"parse", "call"})
    /\ StoppedAtNewline =>
          /\ position \in 1..Len(source) /\ source[position] \in {CR, NL}
          /\ Last(pulled).start = position - 1
          /\ high = position
          /\ result = Parse(impl, SubSeq(source, 1, position)).result

\* A Call was returned at a carriage return that is followed by an
\* unclosed quote, which parsed on its own is an error.
C16_Witness ==
    /\ StoppedAtNewline /\ pc = "parsed"
    /\ position < Len(source) /\ source[position + 1] = DQ
    /\ Parse(impl, SubSeq(source, position + 1, Len(source))).result.kind = "Err"

----------------------------------------------------------------------------
(* C17 *)

\* The step is one call of the lexer's next by parse or parse_call.
CallsNext == pc \in {"parse", "call"} /\ Len(pulled') = Len(pulled) + 1

\* C17: the token sequence of any input is finite: every call of next that
\* returns an item leaves the cursor strictly greater than it found it and
\* not beyond the end of the input, and next returns None exactly when the
\* cursor equals the length of the input; so no more items are delivered
\* than the input has characters.
C17_LexerProgress ==
    [][CallsNext =>
        /\ Last(pulled').kind = "None" <=> position = Len(source)
        /\ Last(pulled').kind \notin {"None", "Panic"} => position' > position
        /\ Last(pulled').kind = "None" => position' = position
        /\ position' <= Len(source)
        /\ Len(pulled') <= Len(source) + 1]_vars

\* The lexer was called until it returned None, after four items or more.
C17_Witness ==
    /\ pc = "parsed" /\ Len(pulled) >= 5 /\ Last(pulled).kind = "None"
    /\ position = Len(source)

----------------------------------------------------------------------------
(* C18 *)

\* A character that is none of space, tab, carriage return, line feed, an
\* unquoted-text character or a double quote.
Unlisted(i, c) == c \notin {SP, TAB, CR, NL, DQ} /\ ~Unquoted(i, c)

\* A character that is none of these nor another quote character of the
\* lexer that runs: main.rs also opens a quoted segment at a single quote.
Unlexable(i, c) == Unlisted(i, c) /\ (i = "main" => c # SQ)

\* The item a further call of next would return in the state reached.
NextAgain == next(impl, source', Lexer(position', high'))

----------------------------------------------------------------------------
(* C19 *)

\* Where the k-th item delivered ends: where the next one began, or where
\* the cursor is.
EndOf(k) == IF k < Len(pulled) THEN pulled[k + 1].start ELSE position

\* The k-th item delivered is a Text token lexed from an unquoted run: it
\* began at a character that opens no quoted segment.
UnquotedRun(k) ==
    pulled[k].kind = "Text" /\ source[pulled[k].start + 1] \notin {DQ, SQ}

\* The k-th item covers source[start + 1 .. end], all of it in the class,
\* and the characters on either side of it are not in the class.
MaximalRun(k, class) ==
    /\ pulled[k].start < EndOf(k)
    /\ \A j \in (pulled[k].start + 1)..EndOf(k) : source[j] \in class
    /\ pulled[k].start > 0 => source[pulled[k].start] \notin class
    /\ EndOf(k) < Len(source) => source[EndOf(k) + 1] \notin class

\* C19: Whitespace tokens and unquoted Text tokens are maximal runs: no
\* two Whitespace tokens are adjacent, no two Text tokens that both come
\* from unquoted runs are adjacent, and every unquoted Text token is
\* non-empty and holds only unquoted-text characters, those of its run.
C19_MaximalRuns ==
    \A k \in 1..Len(pulled) :
        /\ pulled[k].kind = "Whitespace" =>
              /\ MaximalRun(k, {SP, TAB})
              /\ k > 1 => pulled[k - 1].kind # "Whitespace"
        /\ UnquotedRun(k) =>
              /\ MaximalRun(k, {c \in Char : Unquoted(impl, c)})
              /\ pulled[k].text # <<>>
              /\ pulled[k].text = SubSeq(source, pulled[k].start + 1, EndOf(k))
              /\ k > 1 => ~UnquotedRun(k - 1)

\* The lexer has delivered an unquoted Text token of two characters or
\* more and, right after it, a Whitespace token of two characters or more.
C19_Witness ==
    \E k \in 1..(Len(pulled) - 1) :
        /\ UnquotedRun(k) /\ Len(pulled[k].text) >= 2
        /\ pulled[k + 1].kind = "Whitespace"
        /\ EndOf(k + 1) - pulled[k + 1].start >= 2

----------------------------------------------------------------------------
(* C20 *)

\* C20: in every reachable state of the lexer 0 <= position <= the length
\* of the input. unread_char is only called right after a read_char that
\* returned a character, so its assertion position != 0 never fails, and
\* the cursor is never more than one character below the highest position
\* it has reached.
C20_CursorInBounds ==
    /\ position \in 0..Len(source)
    /\ high \in 0..Len(source)
    /\ position \in {high - 1, high}
    /\ \A k \in 1..Len(pulled) : pulled[k].orderly
    /\ status # Panicked("assert")

\* The lexer has delivered an unquoted Text token that ended at a further
\* character, which it read and unread: the cursor is one below the
\* highest position reached.
C20_Witness ==
    /\ pulled # <<>> /\ UnquotedRun(Len(pulled)) /\ Last(pulled).orderly
    /\ position >= 1 /\ position = high - 1

====
